---- MODULE Spec2Model ----
(***************************************************************************)
(* State-machine model of checkov/common/runners/object_runner.py:         *)
(* Runner.run, Runner._load_files, Runner._get_jobs, Runner._get_triggers  *)
(* and the construction of a Record from one raw check result.             *)
(*                                                                         *)
(* Python values are encoded as follows.                                   *)
(*   dict            a sequence of <<key, value>> items with unique keys,  *)
(*                   in insertion order (DictSet is d[k] = v)              *)
(*   list of raw     a sequence of line numbers 1..n (the text of a raw    *)
(*   lines           line plays no part in the runner)                     *)
(*   an exception    pc = "raised" and exc names the exception             *)
(* Record fields that only copy attributes of the check (name, severity,   *)
(* bc_id, class) and the display path are not part of the state.           *)
(***************************************************************************)
EXTENDS Integers, Sequences, FiniteSets, TLC

VARIABLES
    \* ---- Runner.run ----
    pc,               \* position of run(): start, parsing, walk, scan, results, done, raised
    exc,              \* the exception that left run(), "" when none
    check_type,       \* self.check_type
    args,             \* the arguments of run() and the overridable require_external_checks()
    workflow_name,    \* self.workflow_name
    jobs,             \* self.jobs
    triggers,         \* self.triggers
    definitions,      \* dict path -> parsed document
    definitions_raw,  \* dict path -> raw lines
    walk_left,        \* directories os.walk has still to yield
    pending,          \* parses dispatched by the current _load_files call, not yet complete
    results,          \* (file, result) pairs of the current _load_files call, not yet consumed
    file_idx,         \* position of "for file_path in definitions.keys()"
    scan_items,       \* items of the scan result mapping of the current file, not yet visited
    report,           \* the records added to the Report, in order
    loaded_checks,    \* directories given to registry.load_external_checks, in order
    parse_log,        \* history: (file, parsed) for every completed _parse_file call
    call_docs,        \* history: the documents the current _load_files call has stored, in order
    scan_log,         \* history: the registry.scan calls, each with the (key, has check) it returned
    \* ---- one Record built from one raw result ----
    rec_raw,          \* definitions_raw[file_path] of the file the result belongs to
    rec_result,       \* the raw result
    rec_out,          \* what lines 99-127 made of it
    \* ---- Runner._get_jobs ----
    jobs_literal, jobs_in, jobs_out,
    \* ---- Runner._get_triggers ----
    trig_in, trig_out

runVars == <<pc, exc, check_type, args, workflow_name, jobs, triggers, definitions,
             definitions_raw, walk_left, pending, results, file_idx, scan_items,
             report, loaded_checks, parse_log, call_docs, scan_log>>
recVars == <<rec_raw, rec_result, rec_out>>
jobVars == <<jobs_literal, jobs_in, jobs_out>>
trigVars == <<trig_in, trig_out>>
vars == <<runVars, recVars, jobVars, trigVars>>

----------------------------------------------------------------------------
\* Bounds of the model
MaxFiles == 2       \* length of the explicit file list
MaxResults == 2     \* raw results returned by registry.scan over one run
MaxLines == 7       \* raw lines of a file
MaxJobKeys == 3     \* items of an enumerated jobs mapping
MaxTriggerKeys == 3 \* keys of an enumerated mapping under the top-level key True

START_LINE == "__startline__"
END_LINE == "__endline__"
GITHUB_ACTIONS == "github_actions"
None == "None"

----------------------------------------------------------------------------
\* Python dict and list primitives

Keys(d) == [i \in 1..Len(d) |-> d[i][1]]
KeySet(d) == {d[i][1] : i \in 1..Len(d)}
HasKey(d, k) == k \in KeySet(d)
DictGet(d, k) == d[CHOOSE i \in 1..Len(d) : d[i][1] = k][2]

\* d[k] = v: an existing key keeps its position and takes the new value
DictSet(d, k, v) ==
    IF HasKey(d, k)
    THEN [i \in 1..Len(d) |-> IF d[i][1] = k THEN <<k, v>> ELSE d[i]]
    ELSE Append(d, <<k, v>>)

\* the dict a mapping written as a list of items denotes
RECURSIVE DictFromItems(_)
DictFromItems(items) ==
    IF items = <<>> THEN <<>>
    ELSE LET n == Len(items)
         IN DictSet(DictFromItems(SubSeq(items, 1, n - 1)), items[n][1], items[n][2])

Min(a, b) == IF a < b THEN a ELSE b
Max(a, b) == IF a > b THEN a ELSE b

\* seq[lo:hi] with Python's treatment of negative and out-of-range indices
SliceIndex(i, n) == IF i < 0 THEN Max(i + n, 0) ELSE Min(i, n)
PySlice(seq, lo, hi) ==
    SubSeq(seq, SliceIndex(lo, Len(seq)) + 1, SliceIndex(hi, Len(seq)))

RawLines(n) == [i \in 1..n |-> i]

----------------------------------------------------------------------------
\* One raw result -> one Record (run(), lines 99-127)

\* result["results_configuration"]: kind "missing" is a result without that key,
\* "none" is None, "empty" is {}, "loc" carries a location, "bad" is a non-empty
\* value get_start_end_lines cannot read
Config(kind, start, end) == [kind |-> kind, start |-> start, end |-> end]
Result(key, check, cfg) == [key |-> key, check |-> check, results_configuration |-> cfg]

ConfigTruthy(cfg) == cfg.kind \in {"loc", "bad"}

\* self.get_start_end_lines(end, result_config, start), returning (end, start)
GetStartEndLines(end, result_config, start) ==
    IF result_config.kind = "loc"
    THEN [raised |-> FALSE, end |-> result_config.end, start |-> result_config.start]
    ELSE [raised |-> TRUE, end |-> end, start |-> start]

\* start = 0; end = 0; if result_config: end, start = self.get_start_end_lines(...)
ResolveLines(result_config) ==
    IF ConfigTruthy(result_config)
    THEN GetStartEndLines(0, result_config, 0)
    ELSE [raised |-> FALSE, end |-> 0, start |-> 0]

\* code_block=definitions_raw[file_path][start - 1:end + 1]
CodeBlockPadded(raw, start, end) == PySlice(raw, start - 2, end + 1)
CodeBlock(raw, start, end) == PySlice(raw, start - 1, end + 1)

\* file_line_range=[start, end + 1]
FileLineRangeInclusive(start, end) == <<start, end>>
FileLineRange(start, end) == <<start, end + 1>>

NoRecord ==
    [check_id |-> None, code_block |-> <<>>, file_line_range |-> <<0, 0>>,
     file_path |-> <<>>, resource |-> <<(<<>>), 0>>,
     jobs |-> <<>>, triggers |-> {}, workflow_name |-> None]

\* Record(...) and, for GitHub Actions, GithubActionsRecord(record, jobs, triggers, workflow_name)
MakeRecord(check, raw, start, end, file_path, key, gha, j, t, w) ==
    [check_id |-> check,
     code_block |-> CodeBlock(raw, start, end),
     file_line_range |-> FileLineRange(start, end),
     file_path |-> file_path,
     resource |-> <<file_path, key>>,
     jobs |-> IF gha THEN j ELSE <<>>,
     triggers |-> IF gha THEN t ELSE {},
     workflow_name |-> IF gha THEN w ELSE None]

\* the body of "for key, result in results.items()" up to the Record
ProcessResultKeepsNoCheck(result, raw, file_path, gha, j, t, w) ==
    IF result.results_configuration.kind = "missing"
    THEN [status |-> "raised", exc |-> "KeyError: results_configuration", record |-> NoRecord]
    ELSE LET lines == ResolveLines(result.results_configuration)
         IN IF lines.raised
            THEN [status |-> "raised", exc |-> "get_start_end_lines", record |-> NoRecord]
            ELSE [status |-> "built", exc |-> "",
                  record |-> MakeRecord(result.check, raw, lines.start, lines.end,
                                        file_path, result.key, gha, j, t, w)]
ProcessResult(result, raw, file_path, gha, j, t, w) ==
    IF result.results_configuration.kind = "missing"
    THEN [status |-> "raised", exc |-> "KeyError: results_configuration", record |-> NoRecord]
    ELSE IF result.check = None
    THEN [status |-> "skipped", exc |-> "", record |-> NoRecord]
    ELSE LET lines == ResolveLines(result.results_configuration)
         IN IF lines.raised
            THEN [status |-> "raised", exc |-> "get_start_end_lines", record |-> NoRecord]
            ELSE [status |-> "built", exc |-> "",
                  record |-> MakeRecord(result.check, raw, lines.start, lines.end,
                                        file_path, result.key, gha, j, t, w)]

NotProcessed == [status |-> "pending", exc |-> "", record |-> NoRecord]

\* an attribute holding None or a value (self.jobs, self.triggers)
PyNone == <<>>
Some(v) == <<v>>

----------------------------------------------------------------------------
\* Runner._get_jobs (lines 174-189)

\* one pass of "for key, value in jobs.items()" over the accumulator
\* [jobs_dict, tmp_key, raised]; jobs_dict[tmp_key][marker] = value raises
\* KeyError when jobs_dict has no key tmp_key
JobsStepFirstUnit(acc, key, value) ==
    IF acc.raised THEN acc
    ELSE IF key # START_LINE /\ key # END_LINE
    THEN [acc EXCEPT !.jobs_dict = DictSet(acc.jobs_dict, key, <<>>),
                     !.tmp_key = IF acc.tmp_key = "" THEN key ELSE acc.tmp_key]
    ELSE IF HasKey(acc.jobs_dict, acc.tmp_key)
    THEN [acc EXCEPT !.jobs_dict =
            DictSet(acc.jobs_dict, acc.tmp_key,
                    DictSet(DictGet(acc.jobs_dict, acc.tmp_key), key, value))]
    ELSE [acc EXCEPT !.raised = TRUE]
JobsStep(acc, key, value) ==
    IF acc.raised THEN acc
    ELSE IF key # START_LINE /\ key # END_LINE
    THEN [acc EXCEPT !.jobs_dict = DictSet(acc.jobs_dict, key, <<>>), !.tmp_key = key]
    ELSE IF HasKey(acc.jobs_dict, acc.tmp_key)
    THEN [acc EXCEPT !.jobs_dict =
            DictSet(acc.jobs_dict, acc.tmp_key,
                    DictSet(DictGet(acc.jobs_dict, acc.tmp_key), key, value))]
    ELSE [acc EXCEPT !.raised = TRUE]

RECURSIVE JobsLoop(_, _)
JobsLoop(acc, items) ==
    IF items = <<>> THEN acc
    ELSE JobsLoop(JobsStep(acc, items[1][1], items[1][2]), Tail(items))

\* _get_jobs(result) for result[0].get('jobs') = jobs_map (<<>> when absent or empty)
GetJobs(jobs_map) ==
    JobsLoop([jobs_dict |-> <<>>, tmp_key |-> "", raised |-> FALSE], jobs_map)

----------------------------------------------------------------------------
\* Runner._get_triggers (lines 163-172)

\* the value result[0].get(True): type "none" (key absent), "dict", "str" or
\* "list"; keys holds the keys of a dict, the elements of a list, and the
\* text of a string (<<>> for the empty string)
Value(type, keys) == [type |-> type, keys |-> keys]
ValueTruthy(v) == v.type # "none" /\ v.keys # <<>>

\* {key for key in triggers.keys() if key != START_LINE and key != END_LINE};
\* a value without .keys() raises AttributeError
TriggerKeys(v) ==
    IF v.type = "dict"
    THEN [raised |-> FALSE,
          set |-> {v.keys[i] : i \in 1..Len(v.keys)} \ {START_LINE, END_LINE}]
    ELSE [raised |-> TRUE, set |-> {}]

GetTriggersNoExcept(v) ==
    IF ValueTruthy(v) THEN TriggerKeys(v) ELSE [raised |-> FALSE, set |-> {}]
\* try: if triggers: triggers_set = ... except Exception: log; return triggers_set
GetTriggers(v) ==
    IF ValueTruthy(v)
    THEN LET r == TriggerKeys(v)
         IN IF r.raised THEN [raised |-> FALSE, set |-> {}] ELSE r
    ELSE [raised |-> FALSE, set |-> {}]

----------------------------------------------------------------------------
\* Inputs of the three functions

Locations == {Config("loc", st, en) : st \in 1..MaxLines, en \in 1..MaxLines}
Configs ==
    {Config(k, 0, 0) : k \in {"missing", "none", "empty", "bad"}} \cup Locations
RecResults == {Result(1, c, cfg) : c \in {None, "CKV_1"}, cfg \in Configs}

\* items of a jobs mapping in document order; the sub-mapping of a unit is
\* never read by _get_jobs and is written 0
JobItems ==
    {<<u, 0>> : u \in {"build", "test"}} \cup
    {<<m, v>> : m \in {START_LINE, END_LINE}, v \in {3, 5}}
ExampleJobs ==
    <<(<<"build", 0>>), (<<START_LINE, 3>>), (<<END_LINE, 5>>),
      (<<"test", 0>>), (<<START_LINE, 7>>), (<<END_LINE, 9>>)>>
JobsLiterals == UNION {[1..n -> JobItems] : n \in 0..MaxJobKeys} \cup {ExampleJobs}

TriggerNames == {"push", "pull_request", "schedule", START_LINE, END_LINE}
NoDuplicates(seq) == \A i, j \in 1..Len(seq) : seq[i] = seq[j] => i = j
TriggerValues ==
    {Value("dict", ks) :
        ks \in {q \in UNION {[1..n -> TriggerNames] : n \in 0..MaxTriggerKeys} :
                    NoDuplicates(q)}} \cup
    {Value(t, ks) : t \in {"str", "list"}, ks \in {<<>>, <<"push">>}} \cup
    {Value("none", <<>>)}

Pending == [status |-> "pending", raised |-> FALSE]

RunIdle ==
    /\ pc = "idle" /\ exc = "" /\ check_type = None
    /\ args = [files |-> <<>>, root_folder |-> None, external_checks_dir |-> <<>>,
               require_external_checks |-> TRUE, excluded_paths |-> {}]
    /\ workflow_name = None /\ jobs = PyNone /\ triggers = PyNone
    /\ definitions = <<>> /\ definitions_raw = <<>> /\ walk_left = <<>>
    /\ pending = {} /\ results = <<>> /\ file_idx = 0 /\ scan_items = <<>>
    /\ report = <<>> /\ loaded_checks = <<>> /\ parse_log = {}
    /\ call_docs = <<>> /\ scan_log = <<>>
RecIdle == rec_raw = <<>> /\ rec_result = Result(0, None, Config("none", 0, 0))
           /\ rec_out = NotProcessed
JobsIdle == jobs_literal = <<>> /\ jobs_in = <<>> /\ jobs_out = Pending
TrigIdle == trig_in = Value("none", <<>>) /\ trig_out = Pending

----------------------------------------------------------------------------
\* Record construction applied to every raw result and every raw-line list

InitRecord ==
    /\ rec_raw \in {RawLines(n) : n \in 0..MaxLines}
    /\ rec_result \in RecResults
    /\ rec_out = NotProcessed
    /\ RunIdle /\ JobsIdle /\ TrigIdle

BuildRecord ==
    /\ rec_out.status = "pending"
    /\ rec_out' = ProcessResult(rec_result, rec_raw, <<"a.yml">>, FALSE, PyNone, PyNone, None)
    /\ UNCHANGED <<rec_raw, rec_result, runVars, jobVars, trigVars>>

SpecRecord == InitRecord /\ [][BuildRecord]_vars

\* _get_jobs applied to every jobs mapping

InitJobs ==
    /\ jobs_literal \in JobsLiterals
    /\ jobs_in = DictFromItems(jobs_literal)
    /\ jobs_out = Pending
    /\ RunIdle /\ RecIdle /\ TrigIdle

ExtractJobs ==
    /\ jobs_out.status = "pending"
    /\ LET r == GetJobs(jobs_in)
       IN jobs_out' = [status |-> "done", raised |-> r.raised, jobs_dict |-> r.jobs_dict]
    /\ UNCHANGED <<jobs_literal, jobs_in, runVars, recVars, trigVars>>

SpecJobs == InitJobs /\ [][ExtractJobs]_vars

\* _get_triggers applied to every value of the top-level key True

InitTriggers ==
    /\ trig_in \in TriggerValues
    /\ trig_out = Pending
    /\ RunIdle /\ RecIdle /\ JobsIdle

ExtractTriggers ==
    /\ trig_out.status = "pending"
    /\ LET r == GetTriggers(trig_in)
       IN trig_out' = [status |-> "done", raised |-> r.raised, set |-> r.set]
    /\ UNCHANGED <<trig_in, runVars, recVars, jobVars>>

SpecTriggers == InitTriggers /\ [][ExtractTriggers]_vars

----------------------------------------------------------------------------
\* Runner.run (lines 54-138) and Runner._load_files (lines 31-46)

\* a path is the sequence of its components; os.path.join(root, f)
JoinPath(root, f) == Append(root, f)
NoPath == <<>>

FileNames == <<"a.yml", "b.yml", "c.yml", "d.yml">>
ExplicitFiles(n) == [i \in 1..n |-> <<FileNames[i]>>]

\* what os.walk(root_folder) yields: (root, f_names) per directory
WalkTree ==
    <<[root |-> <<"root">>, f_names |-> <<"w1.yml">>],
      [root |-> <<"root", "sub">>, f_names |-> <<"w2.yml">>]>>

\* filter_ignored_paths(root, f_names, excluded_paths, included_paths()):
\* removes the excluded names from f_names in place
FilterIgnoredPaths(names, excluded_paths) ==
    SelectSeq(names, LAMBDA f : f \notin excluded_paths)

\* the outcomes of _parse_file(f): None, or (document, raw lines); the document
\* of file f names its workflow and its one job after f
NoDoc == [parsed |-> FALSE, name |-> None, jobs |-> <<>>, on |-> Value("none", <<>>),
          raw |-> <<>>]
DocOf(f) ==
    [parsed |-> TRUE, name |-> f[Len(f)],
     jobs |-> <<(<<f[Len(f)], 0>>), (<<START_LINE, 3>>), (<<END_LINE, 5>>)>>,
     on |-> Value("dict", <<"push", START_LINE, END_LINE>>),
     raw |-> RawLines(MaxLines)]
\* a document whose jobs mapping starts with a line marker
MarkerFirstDocOf(f) ==
    [DocOf(f) EXCEPT !.jobs = <<(<<START_LINE, 3>>), (<<f[Len(f)], 0>>)>>]
ParseOutcomes(f) ==
    {NoDoc, DocOf(f)} \cup
    (IF f = <<"root", "sub", "w2.yml">> THEN {MarkerFirstDocOf(f)} ELSE {})

\* lines 73-79: the two early returns of run()
NothingToScanRootOnly(a) == a.files = <<>> /\ a.root_folder = None
NothingToScan(a) ==
    \/ a.files = <<>> /\ a.root_folder = None
    \/ a.external_checks_dir = <<>> /\ a.require_external_checks

\* lines 43-46: the run metadata after a document has been stored
KeepFirstMetadata(old, doc) ==
    IF old.workflow_name # None THEN old
    ELSE LET j == GetJobs(doc.jobs)
         IN [workflow_name |-> doc.name,
             jobs |-> IF j.raised THEN old.jobs ELSE Some(j.jobs_dict),
             triggers |-> IF j.raised THEN old.triggers ELSE Some(GetTriggers(doc.on).set),
             raised |-> j.raised]
NewMetadata(old, doc) ==
    LET j == GetJobs(doc.jobs)
    IN [workflow_name |-> doc.name,
        jobs |-> IF j.raised THEN old.jobs ELSE Some(j.jobs_dict),
        triggers |-> IF j.raised THEN old.triggers ELSE Some(GetTriggers(doc.on).set),
        raised |-> j.raised]

\* the raw results registry.scan may return for one file: a mapping key -> result
RunConfigs(check) ==
    IF check = None
    THEN {Config("none", 0, 0), Config("missing", 0, 0)}
    ELSE {Config("none", 0, 0), Config("missing", 0, 0), Config("bad", 0, 0),
          Config("loc", 4, 6)}
RunResults(key) ==
    UNION {{Result(key, c, cfg) : cfg \in RunConfigs(c)} : c \in {None, "CKV_1"}}
ScanMappings(budget) ==
    UNION {{m \in [1..n -> UNION {RunResults(k) : k \in 1..n}] :
                \A k \in 1..n : m[k].key = k} : n \in 0..budget}

ResultsSoFar == LET RECURSIVE Count(_)
                    Count(i) == IF i = 0 THEN 0 ELSE Count(i - 1) + Len(scan_log[i].keys)
                IN Count(Len(scan_log))

Init ==
    /\ pc = "start" /\ exc = ""
    /\ check_type \in {GITHUB_ACTIONS, "yaml"}
    /\ args \in [files : {ExplicitFiles(n) : n \in 0..MaxFiles},
                 root_folder : {None, "root"},
                 external_checks_dir : {<<>>, <<"extra_checks">>},
                 require_external_checks : BOOLEAN,
                 excluded_paths : {{}, {"w1.yml"}}]
    /\ workflow_name = None /\ jobs = PyNone /\ triggers = PyNone
    /\ definitions = <<>> /\ definitions_raw = <<>> /\ walk_left = <<>>
    /\ pending = {} /\ results = <<>> /\ file_idx = 0 /\ scan_items = <<>>
    /\ report = <<>> /\ loaded_checks = <<>> /\ parse_log = {}
    /\ call_docs = <<>> /\ scan_log = <<>>
    /\ RecIdle /\ JobsIdle /\ TrigIdle

\* lines 62-85: the early returns, load_external_checks, and the dispatch of
\* the parses of the explicit file list (_load_files, lines 38-39)
RunEntry ==
    /\ pc = "start"
    /\ IF NothingToScan(args)
       THEN /\ pc' = "done"
            /\ UNCHANGED <<loaded_checks, walk_left, pending>>
       ELSE /\ loaded_checks' = args.external_checks_dir
            /\ walk_left' = IF args.root_folder # None THEN WalkTree ELSE <<>>
            /\ pending' = {args.files[i] : i \in 1..Len(args.files)}
            /\ pc' = IF args.files # <<>> THEN "parsing" ELSE "walk"
    /\ UNCHANGED <<exc, check_type, args, workflow_name, jobs, triggers, definitions,
                   definitions_raw, results, file_idx, scan_items, report, parse_log,
                   call_docs, scan_log, recVars, jobVars, trigVars>>

\* one parse of parallel_runner.run_function completes (line 39)
ParseFile(f) ==
    /\ pc = "parsing" /\ f \in pending
    /\ \E outcome \in ParseOutcomes(f) :
        /\ results' = Append(results, <<f, outcome>>)
        /\ parse_log' = parse_log \cup {<<f, outcome.parsed>>}
    /\ pending' = pending \ {f}
    /\ UNCHANGED <<pc, exc, check_type, args, workflow_name, jobs, triggers, definitions,
                   definitions_raw, walk_left, file_idx, scan_items, report,
                   loaded_checks, call_docs, scan_log, recVars, jobVars, trigVars>>

\* one pass of "for file, result in results" (lines 40-46)
LoadResult ==
    /\ pc = "parsing" /\ results # <<>>
    /\ LET file == results[1][1]
           result == results[1][2]
           meta == NewMetadata([workflow_name |-> workflow_name, jobs |-> jobs,
                                triggers |-> triggers, raised |-> FALSE], result)
       IN /\ results' = Tail(results)
          /\ IF result.parsed
             THEN /\ definitions' = DictSet(definitions, file, result)
                  /\ definitions_raw' = DictSet(definitions_raw, file, result.raw)
                  /\ call_docs' = Append(call_docs, result)
                  /\ IF check_type = GITHUB_ACTIONS
                     THEN /\ workflow_name' = meta.workflow_name
                          /\ jobs' = meta.jobs
                          /\ triggers' = meta.triggers
                          /\ pc' = IF meta.raised THEN "raised" ELSE pc
                          /\ exc' = IF meta.raised THEN "KeyError: _get_jobs" ELSE exc
                     ELSE UNCHANGED <<workflow_name, jobs, triggers, pc, exc>>
             ELSE UNCHANGED <<definitions, definitions_raw, call_docs, workflow_name,
                              jobs, triggers, pc, exc>>
    /\ UNCHANGED <<check_type, args, walk_left, pending, file_idx, scan_items, report,
                   loaded_checks, parse_log, scan_log, recVars, jobVars, trigVars>>

\* _load_files returns: every parse is complete and every result consumed
LoadReturn ==
    /\ pc = "parsing" /\ pending = {} /\ results = <<>>
    /\ pc' = "walk"
    /\ UNCHANGED <<exc, check_type, args, workflow_name, jobs, triggers, definitions,
                   definitions_raw, walk_left, pending, results, file_idx, scan_items,
                   report, loaded_checks, parse_log, call_docs, scan_log,
                   recVars, jobVars, trigVars>>

\* one pass of "for root, d_names, f_names in os.walk(root_folder)" (lines 88-91)
\* up to the dispatch of the parses of that directory
WalkDir ==
    /\ pc = "walk" /\ walk_left # <<>>
    /\ LET dir == walk_left[1]
           f_names == FilterIgnoredPaths(dir.f_names, args.excluded_paths)
       IN pending' = {JoinPath(dir.root, f_names[i]) : i \in 1..Len(f_names)}
    /\ walk_left' = Tail(walk_left)
    /\ call_docs' = <<>>
    /\ pc' = "parsing"
    /\ UNCHANGED <<exc, check_type, args, workflow_name, jobs, triggers, definitions,
                   definitions_raw, results, file_idx, scan_items, report,
                   loaded_checks, parse_log, scan_log, recVars, jobVars, trigVars>>

\* line 93-94: the scan loop starts once the walk is over
StartScanEarly ==
    /\ pc = "walk"
    /\ pc' = "scan" /\ file_idx' = 1
    /\ UNCHANGED <<exc, check_type, args, workflow_name, jobs, triggers, definitions,
                   definitions_raw, walk_left, pending, results, scan_items, report,
                   loaded_checks, parse_log, call_docs, scan_log,
                   recVars, jobVars, trigVars>>
StartScan ==
    /\ pc = "walk" /\ walk_left = <<>>
    /\ pc' = "scan" /\ file_idx' = 1
    /\ UNCHANGED <<exc, check_type, args, workflow_name, jobs, triggers, definitions,
                   definitions_raw, walk_left, pending, results, scan_items, report,
                   loaded_checks, parse_log, call_docs, scan_log,
                   recVars, jobVars, trigVars>>

\* lines 94-97: registry.scan on the next key of definitions
ScanFile ==
    /\ pc = "scan" /\ file_idx <= Len(definitions)
    /\ \E m \in ScanMappings(MaxResults - ResultsSoFar) :
        /\ scan_items' = m
        /\ scan_log' = Append(scan_log,
                [file |-> definitions[file_idx][1],
                 keys |-> [k \in 1..Len(m) |-> <<m[k].key, m[k].check # None>>]])
    /\ pc' = "results"
    /\ UNCHANGED <<exc, check_type, args, workflow_name, jobs, triggers, definitions,
                   definitions_raw, walk_left, pending, results, file_idx, report,
                   loaded_checks, parse_log, call_docs, recVars, jobVars, trigVars>>

\* one pass of "for key, result in results.items()" (lines 98-135)
HandleResult ==
    /\ pc = "results" /\ scan_items # <<>>
    /\ LET file_path == definitions[file_idx][1]
           r == ProcessResult(scan_items[1], DictGet(definitions_raw, file_path),
                              file_path, check_type = GITHUB_ACTIONS,
                              jobs, triggers, workflow_name)
       IN /\ report' = IF r.status = "built" THEN Append(report, r.record) ELSE report
          /\ pc' = IF r.status = "raised" THEN "raised" ELSE pc
          /\ exc' = r.exc
    /\ scan_items' = Tail(scan_items)
    /\ UNCHANGED <<check_type, args, workflow_name, jobs, triggers, definitions,
                   definitions_raw, walk_left, pending, results, file_idx,
                   loaded_checks, parse_log, call_docs, scan_log,
                   recVars, jobVars, trigVars>>

\* line 136: the results of the file are exhausted
NextFile ==
    /\ pc = "results" /\ scan_items = <<>>
    /\ file_idx' = file_idx + 1
    /\ pc' = "scan"
    /\ UNCHANGED <<exc, check_type, args, workflow_name, jobs, triggers, definitions,
                   definitions_raw, walk_left, pending, results, scan_items, report,
                   loaded_checks, parse_log, call_docs, scan_log,
                   recVars, jobVars, trigVars>>

\* lines 137-138: return report
Return ==
    /\ pc = "scan" /\ file_idx > Len(definitions)
    /\ pc' = "done"
    /\ UNCHANGED <<exc, check_type, args, workflow_name, jobs, triggers, definitions,
                   definitions_raw, walk_left, pending, results, file_idx, scan_items,
                   report, loaded_checks, parse_log, call_docs, scan_log,
                   recVars, jobVars, trigVars>>

Next ==
    \/ RunEntry
    \/ \E f \in pending : ParseFile(f)
    \/ LoadResult
    \/ LoadReturn
    \/ WalkDir
    \/ StartScan
    \/ ScanFile
    \/ HandleResult
    \/ NextFile
    \/ Return

Spec == Init /\ [][Next]_vars

----------------------------------------------------------------------------
\* Properties of run() (Spec)

\* the files run() hands to _parse_file: the explicit list and, under a root
\* folder, the names the filter leaves in every walked directory
ToParse ==
    {args.files[i] : i \in 1..Len(args.files)} \cup
    (IF args.root_folder = None THEN {}
     ELSE UNION {{JoinPath(WalkTree[d].root, f) :
                    f \in {WalkTree[d].f_names[i] : i \in 1..Len(WalkTree[d].f_names)}
                            \ args.excluded_paths} : d \in 1..Len(WalkTree)})

\* the (file, key) pairs with a check object among the first n scan calls, in order
RECURSIVE WithCheck(_)
WithCheck(n) ==
    IF n = 0 THEN <<>>
    ELSE LET e == scan_log[n]
             hit == SelectSeq(e.keys, LAMBDA kc : kc[2])
         IN WithCheck(n - 1) \o [i \in 1..Len(hit) |-> <<e.file, hit[i][1]>>]

\* the raw results the scan calls returned, with and without a check object
RECURSIVE Returned(_, _)
Returned(n, has_check) ==
    IF n = 0 THEN 0
    ELSE Returned(n - 1, has_check) +
         Cardinality({k \in 1..Len(scan_log[n].keys) : scan_log[n].keys[k][2] = has_check})

\* C1: run() returns an empty report and raises nothing when neither a root
\* folder nor a file list is given, and when no external-checks directory is
\* given while require_external_checks() is true; no file is parsed, no
\* external check is loaded and registry.scan is not called.
C1_NothingToScanGivesEmptyReport ==
    (pc # "start" /\
        (\/ args.files = <<>> /\ args.root_folder = None
         \/ args.external_checks_dir = <<>> /\ args.require_external_checks)) =>
        /\ pc = "done" /\ exc = ""
        /\ report = <<>>
        /\ parse_log = {} /\ pending = {} /\ definitions = <<>>
        /\ scan_log = <<>>

C1_Witness ==
    /\ pc = "done" /\ report = <<>> /\ scan_log = <<>> /\ parse_log = {}
    /\ args.files # <<>> /\ args.root_folder # None
    /\ args.external_checks_dir = <<>> /\ args.require_external_checks

\* C2: the report run() returns holds as many findings as the scan calls
\* returned raw results with a check object; a raw result without one adds no
\* finding, and a file whose parse gave no result is not loaded, not scanned
\* and has no finding.
C2_OneFindingPerResultWithCheck ==
    pc = "done" =>
        /\ Len(report) = Returned(Len(scan_log), TRUE)
        /\ \A i \in 1..Len(report) :
            /\ report[i].check_id # None
            /\ <<report[i].file_path, TRUE>> \in parse_log
        /\ \A p \in parse_log :
            ~p[2] => /\ ~HasKey(definitions, p[1])
                     /\ \A i \in 1..Len(scan_log) : scan_log[i].file # p[1]

C2_Witness ==
    /\ pc = "done" /\ Len(report) = 1
    /\ Returned(Len(scan_log), TRUE) = 1 /\ Returned(Len(scan_log), FALSE) = 1
    /\ \E p \in parse_log : ~p[2]

\* C5 (as amended): for the GitHub Actions family, after a _load_files call
\* that stored at least one document, workflow_name, jobs and triggers are
\* those of the last document the call stored, in the order in which the
\* results of the parses are consumed.
C5_LastDocumentWins ==
    (check_type = GITHUB_ACTIONS /\ pc = "walk" /\ call_docs # <<>>) =>
        LET doc == call_docs[Len(call_docs)]
        IN /\ workflow_name = doc.name
           /\ jobs = Some(GetJobs(doc.jobs).jobs_dict)
           /\ triggers = Some(GetTriggers(doc.on).set)

C5_Witness ==
    /\ check_type = GITHUB_ACTIONS /\ pc = "walk" /\ Len(call_docs) = 2
    /\ call_docs[1].name = "b.yml" /\ call_docs[2].name = "a.yml"
    /\ workflow_name = "a.yml"

\* C5 (as stated): after a _load_files call that parsed several documents,
\* workflow_name, jobs and triggers are those of the first successfully
\* parsed document of the call.
C5_FirstDocumentWins ==
    (check_type = GITHUB_ACTIONS /\ pc = "walk" /\ call_docs # <<>>) =>
        LET doc == call_docs[1]
        IN /\ workflow_name = doc.name
           /\ jobs = Some(GetJobs(doc.jobs).jobs_dict)
           /\ triggers = Some(GetTriggers(doc.on).set)

\* C8: malformed location data of a raw result (no results_configuration
\* entry, or one get_start_end_lines fails on) does not abort run().
C8_MalformedLocationDoesNotAbort ==
    pc = "raised" =>
        exc \notin {"KeyError: results_configuration", "get_start_end_lines"}

\* C10: no registry.scan call and no finding is made before every parse of
\* the run (explicit file list and every walked directory) has completed and
\* its result has been consumed; the files are scanned in the key order of
\* definitions, and the findings are in the report in that file order and,
\* within a file, in the order of the scan result mapping.
C10_ScansFollowAllParses ==
    /\ (pc \in {"scan", "results"} \/ scan_log # <<>> \/ report # <<>>) =>
        /\ pending = {} /\ results = <<>> /\ walk_left = <<>>
        /\ {p[1] : p \in parse_log} = ToParse
    /\ Len(scan_log) <= Len(definitions)
    /\ \A i \in 1..Len(scan_log) : scan_log[i].file = definitions[i][1]
    /\ Len(report) <= Len(WithCheck(Len(scan_log)))
    /\ \A i \in 1..Len(report) : report[i].resource = WithCheck(Len(scan_log))[i]
    /\ pc = "done" => Len(report) = Len(WithCheck(Len(scan_log)))

C10_Witness ==
    /\ pc = "done" /\ Len(scan_log) = 2 /\ Len(report) = 2
    /\ args.files # <<>> /\ args.root_folder # None
    /\ report[1].file_path = <<"a.yml">>
    /\ report[2].file_path = <<"root", "w1.yml">>
    /\ Cardinality(parse_log) = 4

----------------------------------------------------------------------------
\* Properties of the Record built from one raw result (SpecRecord)

RecConfig == rec_result.results_configuration
RecBuilt == rec_out.status = "built"

\* C3 (as amended): a finding whose resolved location is (start, end) has
\* line_range (start, end + 1) and its code snippet is the raw lines numbered
\* start through end + 1, cut at the end of the file: the lines the line_range
\* names, with no line before them. For start = 4, end = 6 in a file of at
\* least 7 raw lines the line_range is (4, 7) and the snippet is lines 4 to 7.
C3_SnippetIsStartToEndPlusOne ==
    (RecBuilt /\ RecConfig.kind = "loc") =>
        LET st == RecConfig.start
            en == RecConfig.end
            last == Min(en + 1, Len(rec_raw))
            block == rec_out.record.code_block
        IN /\ rec_out.record.file_line_range = <<st, en + 1>>
           /\ Len(block) = Max(0, last - st + 1)
           /\ \A i \in 1..Len(block) : block[i] = rec_raw[st + i - 1]
           /\ (st = 4 /\ en = 6 /\ Len(rec_raw) >= 7) => block = <<4, 5, 6, 7>>

C3_Witness ==
    /\ RecBuilt /\ RecConfig = Config("loc", 4, 6) /\ Len(rec_raw) = 7
    /\ rec_out.record.file_line_range = <<4, 7>>
    /\ rec_out.record.code_block = <<4, 5, 6, 7>>

\* C3 (as stated): for start = 4, end = 6 in a file of at least 7 raw lines the
\* line_range is (4, 7) and the snippet is the raw lines 3 through 7.
C3_SnippetHasLeadingPad ==
    (RecBuilt /\ RecConfig = Config("loc", 4, 6) /\ Len(rec_raw) >= 7) =>
        /\ rec_out.record.file_line_range = <<4, 7>>
        /\ rec_out.record.code_block = <<3, 4, 5, 6, 7>>

\* C4: a raw result that has a check and whose result configuration is None
\* or empty yields, for raw lines of every length including 0, a finding with
\* line_range (0, 1) whose snippet is empty or exactly the first raw line;
\* building it raises nothing.
C4_NoLocationGivesZeroOne ==
    (rec_out.status # "pending" /\ rec_result.check # None
        /\ RecConfig.kind \in {"none", "empty"}) =>
        /\ RecBuilt
        /\ rec_out.record.file_line_range = <<0, 1>>
        /\ \/ rec_out.record.code_block = <<>>
           \/ rec_raw # <<>> /\ rec_out.record.code_block = <<rec_raw[1]>>

C4_Witness ==
    /\ RecBuilt /\ RecConfig.kind = "none" /\ Len(rec_raw) = 1
    /\ rec_out.record.file_line_range = <<0, 1>>
    /\ rec_out.record.code_block = <<1>>

----------------------------------------------------------------------------
\* Properties of _get_jobs (SpecJobs)

IsMarker(k) == k \in {START_LINE, END_LINE}
JobsDone == jobs_out.status = "done"
UnitKeys(d) == {k \in KeySet(d) : ~IsMarker(k)}
HasOwner(d, i) == \E j \in 1..(i - 1) : ~IsMarker(d[j][1])
Owner(d, i) ==
    d[CHOOSE j \in 1..(i - 1) :
        /\ ~IsMarker(d[j][1])
        /\ \A l \in (j + 1)..(i - 1) : IsMarker(d[l][1])][1]

\* C6 (as amended): _get_jobs, iterating the items of the jobs mapping in
\* order, returns normally when the mapping is empty or starts with a unit
\* key; what it returns has one entry per non-marker key, every START_LINE /
\* END_LINE marker is held by the most recently started unit, and a unit's bag
\* holds nothing but the markers that follow it. The keys of a mapping are
\* unique, so the document build, START_LINE=3, END_LINE=5, test,
\* START_LINE=7, END_LINE=9 is the mapping build, START_LINE=7, END_LINE=9,
\* test and the result is build -> {START_LINE: 7, END_LINE: 9}, test -> {}.
C6_MarkersGoToLatestUnit ==
    JobsDone =>
        /\ (jobs_in = <<>> \/ ~IsMarker(jobs_in[1][1])) => ~jobs_out.raised
        /\ ~jobs_out.raised =>
            /\ KeySet(jobs_out.jobs_dict) = UnitKeys(jobs_in)
            /\ \A i \in 1..Len(jobs_in) :
                IsMarker(jobs_in[i][1]) =>
                    /\ HasOwner(jobs_in, i)
                    /\ LET bag == DictGet(jobs_out.jobs_dict, Owner(jobs_in, i))
                       IN /\ HasKey(bag, jobs_in[i][1])
                          /\ DictGet(bag, jobs_in[i][1]) = jobs_in[i][2]
            /\ \A u \in KeySet(jobs_out.jobs_dict) :
                \A m \in KeySet(DictGet(jobs_out.jobs_dict, u)) :
                    /\ IsMarker(m)
                    /\ \E i \in 1..Len(jobs_in) :
                        jobs_in[i][1] = m /\ HasOwner(jobs_in, i) /\ Owner(jobs_in, i) = u
        /\ jobs_literal = ExampleJobs =>
            jobs_out.jobs_dict =
                <<(<<"build", <<(<<START_LINE, 7>>), (<<END_LINE, 9>>)>> >>),
                  (<<"test", <<>> >>)>>

C6_Witness ==
    /\ JobsDone /\ ~jobs_out.raised /\ jobs_literal = ExampleJobs
    /\ Keys(jobs_in) = <<"build", START_LINE, END_LINE, "test">>
    /\ DictGet(jobs_out.jobs_dict, "build") = <<(<<START_LINE, 7>>), (<<END_LINE, 9>>)>>
    /\ DictGet(jobs_out.jobs_dict, "test") = <<>>

\* C6 (as stated): for the key sequence build, START_LINE=3, END_LINE=5, test,
\* START_LINE=7, END_LINE=9 the result is build -> {START_LINE: 3, END_LINE: 5}
\* and test -> {START_LINE: 7, END_LINE: 9}.
C6_ExampleKeepsBothRanges ==
    (JobsDone /\ jobs_literal = ExampleJobs) =>
        /\ ~jobs_out.raised
        /\ jobs_out.jobs_dict =
            <<(<<"build", <<(<<START_LINE, 3>>), (<<END_LINE, 5>>)>> >>),
              (<<"test", <<(<<START_LINE, 7>>), (<<END_LINE, 9>>)>> >>)>>

\* C9: a START_LINE or END_LINE key that comes before any unit key is a
\* no-op: _get_jobs does not fail and returns no entry made for the marker.
C9_LeadingMarkerIsNoOp ==
    (JobsDone /\ jobs_in # <<>> /\ IsMarker(jobs_in[1][1])) =>
        /\ ~jobs_out.raised
        /\ KeySet(jobs_out.jobs_dict) = UnitKeys(jobs_in)

----------------------------------------------------------------------------
\* Properties of _get_triggers (SpecTriggers)

\* C7: _get_triggers returns the keys of the mapping under the top-level key
\* True except START_LINE and END_LINE when that value is a mapping, and the
\* empty set when the key is absent, the value is empty or not a mapping
\* (deriving the keys then raises); it never raises.
C7_TriggersOrEmpty ==
    trig_out.status = "done" =>
        /\ ~trig_out.raised
        /\ trig_out.set =
            IF trig_in.type = "dict"
            THEN {k \in TriggerNames : \E i \in 1..Len(trig_in.keys) : trig_in.keys[i] = k}
                    \ {START_LINE, END_LINE}
            ELSE {}

C7_Witness ==
    /\ trig_out.status = "done" /\ ~trig_out.raised
    /\ trig_in = Value("list", <<"push">>)
    /\ trig_out.set = {}

====
